---- MODULE Spec2Model ----
(***************************************************************************)
(* A model of the tweening engine: Easing (one session: a list of property *)
(* bindings sharing one clock) and Ease (the group that owns sessions and  *)
(* drives them from a frame-tick source).                                  *)
(*                                                                         *)
(* Numbers are integers.  Every start value, goal and delta that goes      *)
(* through a curve is a multiple of Unit, so that curve(t, s, d, D) is an  *)
(* exact integer for every integer t and every D in 1..MaxDuration.        *)
(***************************************************************************)
EXTENDS Integers, Sequences, FiniteSets, TLC

\* ------------------------------------------------------------------ bounds
MaxDuration == 2
MaxElapsed == 3
MaxWait == 2
MaxRepeat == 2
MaxCalls == 3
MaxRandom == 2

\* ------------------------------------------------------------------ numbers
\* NaN and undefined, the values JavaScript yields for a property read off a
\* number, for arithmetic on undefined or on an object: one value no
\* computation on defined numbers of the model reaches.
NaN == -1000000

RECURSIVE Fact(_)
Fact(n) == IF n <= 1 THEN 1 ELSE n * Fact(n - 1)

\* Every curved quantity is a multiple of Unit = (MaxDuration!)^2.
Unit == Fact(MaxDuration) * Fact(MaxDuration)

\* Math.PI in model units: an eighth of a turn is Unit.
PI == 4 * Unit

Neg(a) == IF a = NaN THEN NaN ELSE 0 - a
Plus(a, b) == IF a = NaN \/ b = NaN THEN NaN ELSE a + b
Minus(a, b) == IF a = NaN \/ b = NaN THEN NaN ELSE a - b
Abs(a) == IF a < 0 THEN 0 - a ELSE a
Min(a, b) == IF a < b THEN a ELSE b

\* A JavaScript value as the code observes it: n is the value used as a
\* number, x and y are what reading .x and .y off it gives.
Num(v) == [n |-> v, x |-> NaN, y |-> NaN]
Pt(px, py) == [n |-> NaN, x |-> px, y |-> py]
Undefined == [n |-> NaN, x |-> NaN, y |-> NaN]

\* ------------------------------------------------------------------ curves
\* The injected curve (time, start, delta, duration) -> value, as the
\* fraction EaseNum / EaseDen.  "linear" is d*t/D + s, "easeInQuad" is
\* d*(t/D)^2 + s.
Curves == {"linear", "easeInQuad"}

EaseDen(curve, D) == IF curve = "linear" THEN D ELSE D * D

EaseNum(curve, t, s, d, D) ==
    IF curve = "linear" THEN s * D + d * t ELSE s * D * D + d * t * t

ease(curve, t, s, d, D) ==
    IF s = NaN \/ d = NaN THEN NaN
    ELSE EaseNum(curve, t, s, d, D) \div EaseDen(curve, D)

\* ------------------------------------------------------------------ targets
Fields ==
    {"x", "y", "rotation", "alpha", "scale.x", "scale.y", "skew.x", "skew.y",
     "tint", "face", "blend", "shake.x", "shake.y", "_destroyed"}

Elements == {1, 2}

\* A PIXI.Container before any session touched it; "_destroyed" is 0 or 1.
NewElement(e) ==
    [f \in Fields |->
        CASE f = "x" -> e * Unit
          [] f = "y" -> 2 * Unit
          [] f = "rotation" -> IF e = 1 THEN 0 ELSE 3 * Unit
          [] f = "alpha" -> Unit
          [] f = "scale.x" -> Unit
          [] f = "scale.y" -> e * Unit
          [] f = "skew.x" -> 0
          [] f = "skew.y" -> 0
          [] f = "tint" -> 16777215
          [] f = "_destroyed" -> 0
          [] OTHER -> NaN]

Write(e, f, v) == [el |-> e, f |-> f, v |-> v]

RECURSIVE ApplyWrites(_, _)
ApplyWrites(els, wr) ==
    IF wr = <<>> THEN els
    ELSE LET w == Head(wr)
         IN ApplyWrites([els EXCEPT ![w.el][w.f] = w.v], Tail(wr))

RECURSIVE Flatten(_)
Flatten(ss) == IF ss = <<>> THEN <<>> ELSE Head(ss) \o Flatten(Tail(ss))

\* ------------------------------------------------------------------ Easing
\* The kinds of entry addParam tells apart; any other name is a plain field.
ScalarEntries == {"alpha"}
Entries ==
    ScalarEntries \cup {"scaleX", "scaleY", "skewX", "skewY", "scale", "skew",
                        "position", "face", "tint", "blend", "shake"}

\* A parameter of add(): a number, a point, or an array of colours.
PNum(v) == [n |-> v, x |-> NaN, y |-> NaN, arr |-> <<>>, isArray |-> FALSE]
PPt(px, py) == [n |-> NaN, x |-> px, y |-> py, arr |-> <<>>, isArray |-> FALSE]
PArr(a) == [n |-> NaN, x |-> NaN, y |-> NaN, arr |-> a, isArray |-> TRUE]

\* JavaScript's a % n for n > 0: the sign of the dividend.
JSRem(a, n) == IF a >= 0 THEN a % n ELSE 0 - ((0 - a) % n)

mod(a, n) == JSRem(JSRem(a, n) + n, n)

shortestAngle(start, finish) ==
    LET PI_2 == PI * 2
        diff0 == JSRem(Abs(start - finish), PI_2)
        diff == IF diff0 > PI THEN PI_2 - diff0 ELSE diff0
        simple == finish - start
        sign == IF mod(simple + PI, PI_2) - PI > 0 THEN 1 ELSE -1
    IN diff * sign

\* Math.atan2 on the eight directions it is exact on (dx = 0, dy = 0 or
\* |dx| = |dy|), in model units.
atan2(dy, dx) ==
    CASE dy = 0 /\ dx >= 0 -> 0
      [] dy = 0 /\ dx < 0 -> PI
      [] dx = 0 /\ dy > 0 -> PI \div 2
      [] dx = 0 /\ dy < 0 -> 0 - (PI \div 2)
      [] dx > 0 /\ dy > 0 -> PI \div 4
      [] dx < 0 /\ dy > 0 -> 3 * (PI \div 4)
      [] dx > 0 /\ dy < 0 -> 0 - (PI \div 4)
      [] OTHER -> 0 - 3 * (PI \div 4)

\* entry.substr(0, entry.length - 1)
AxisName(entry) == IF entry \in {"scaleX", "scaleY"} THEN "scale" ELSE "skew"

FieldX(name) == IF name = "scale" THEN "scale.x" ELSE "skew.x"
FieldY(name) == IF name = "scale" THEN "scale.y" ELSE "skew.y"

Binding(element, entry, start, to, delta, colors) ==
    [element |-> element, entry |-> entry, start |-> start, to |-> to,
     delta |-> delta, colors |-> colors]

\* The binding addParam pushes for (element, entry, param); el is the
\* element's state at registration.
addParam(element, el, entry, param) ==
    CASE entry \in {"scaleX", "skewX"} ->
            LET start == el[FieldX(AxisName(entry))]
            IN Binding(element, entry, Num(start), Num(param.n),
                       Num(param.n - start), <<>>)
      [] entry \in {"scaleY", "skewY"} ->
            LET start == el[FieldY(AxisName(entry))]
            IN Binding(element, entry, Num(start), Num(param.n),
                       Num(param.n - start), <<>>)
      [] entry \in {"tint", "blend"} ->
            LET colors == IF param.isArray THEN param.arr
                          ELSE <<el["tint"], param.n>>
            IN Binding(element, entry, Num(0), Num(Len(colors)),
                       Num(Len(colors)), colors)
      [] entry = "shake" ->
            Binding(element, entry, Pt(el["x"], el["y"]), Num(param.n),
                    Undefined, <<>>)
      [] entry = "position" ->
            Binding(element, entry, Pt(el["x"], el["y"]), Pt(param.x, param.y),
                    Pt(param.x - el["x"], param.y - el["y"]), <<>>)
      [] entry \in {"skew", "scale"} ->
            LET start == el[FieldX(entry)]
            IN Binding(element, entry, Num(start), Num(param.n),
                       Num(param.n - start), <<>>)
      [] entry = "face" ->
            LET start == el["rotation"]
                to == shortestAngle(start,
                          atan2(param.y - el["y"], param.x - el["x"]))
            IN Binding(element, entry, Num(start), Num(to), Num(to - start),
                       <<>>)
      [] OTHER ->
            LET start == el[entry]
            IN Binding(element, entry, Num(start), Num(param.n),
                       Num(param.n - start), <<>>)

\* The session options: ease names the curve; repeat is the count when
\* options.repeat is a number, and repeatTrue says that it is the boolean
\* true; wait is the delay still to run.
Options(curve, duration, reverse, repeat, repeatTrue, wait) ==
    [ease |-> curve, duration |-> duration, reverse |-> reverse,
     repeat |-> repeat, repeatTrue |-> repeatTrue, wait |-> wait]

\* The truthiness of options.repeat.
Repeating(options) == options.repeatTrue \/ options.repeat # 0

\* new Easing(element, params, options): params is the list of
\* <<entry, param>> in the order of the object's keys, elems the list of
\* elements; one binding per (param, element), params outermost.
NewEasing(elems, params, options, els) ==
    [elements |-> elems,
     eases |-> Flatten([p \in 1..Len(params) |->
                  [c \in 1..Len(elems) |->
                      addParam(elems[c], els[elems[c]], params[p][1],
                               params[p][2])]]),
     options |-> options,
     time |-> 0]

Clock(s) == s.time

updateOne(s, b, entry) ==
    <<Write(b.element, entry,
            ease(s.options.ease, Clock(s), b.start.n, b.delta.n,
                 s.options.duration))>>

\* element[entry].x = element[entry].y = value: y is assigned first.
updatePoint(s, b, entry) ==
    LET v == ease(s.options.ease, Clock(s), b.start.n, b.delta.n,
                  s.options.duration)
    IN <<Write(b.element, FieldY(entry), v), Write(b.element, FieldX(entry), v)>>

updatePosition(s, b) ==
    <<Write(b.element, "x",
            ease(s.options.ease, Clock(s), b.start.x, b.delta.x,
                 s.options.duration)),
      Write(b.element, "y",
            ease(s.options.ease, Clock(s), b.start.y, b.delta.y,
                 s.options.duration))>>

updateCoord(s, b, name, coord) ==
    <<Write(b.element, IF coord = "x" THEN FieldX(name) ELSE FieldY(name),
            ease(s.options.ease, Clock(s), b.start.n, b.delta.n,
                 s.options.duration))>>

\* colors[i] for a 0-based index i: undefined outside the array.
ColorAt(colors, i) == IF i >= 0 /\ i < Len(colors) THEN colors[i + 1] ELSE NaN

\* The channels of a packed colour; undefined >> 16 and undefined & 255 are 0.
Red(c) == IF c = NaN THEN 0 ELSE c \div 65536
Green(c) == IF c = NaN THEN 0 ELSE (c \div 256) % 256
Blue(c) == IF c = NaN THEN 0 ELSE c % 256

\* Math.floor of the curve's value.
CurveFloor(s, b) ==
    EaseNum(s.options.ease, Clock(s), b.start.n, b.delta.n, s.options.duration)
        \div EaseDen(s.options.ease, s.options.duration)

updateTint(s, b) ==
    LET index0 == CurveFloor(s, b)
        index == IF index0 = Len(b.colors) THEN Len(b.colors) - 1 ELSE index0
    IN <<Write(b.element, "tint", ColorAt(b.colors, index))>>

updateBlend(s, b) ==
    LET den == EaseDen(s.options.ease, s.options.duration)
        num == EaseNum(s.options.ease, Clock(s), b.start.n, b.delta.n,
                       s.options.duration)
        index0 == num \div den
        index == IF index0 = Len(b.colors) THEN Len(b.colors) - 1 ELSE index0
        next == IF index + 1 = Len(b.colors)
                THEN (IF s.options.reverse THEN index - 1
                      ELSE IF Repeating(s.options) THEN 0 ELSE index)
                ELSE index + 1
        \* percent = calc - index, as the fraction pn / den
        pn == num - index * den
        color1 == ColorAt(b.colors, index)
        color2 == ColorAt(b.colors, next)
        r == ((den - pn) * Red(color1) + pn * Red(color2)) \div den
        g == ((den - pn) * Green(color1) + pn * Green(color2)) \div den
        bl == ((den - pn) * Blue(color1) + pn * Blue(color2)) \div den
    IN <<Write(b.element, "tint", r * 65536 + g * 256 + bl)>>

\* random(n) of updateShake, with Math.random() = u / MaxRandom.
random(n, u) == IF n = NaN THEN NaN ELSE ((u * n) \div MaxRandom) - (n \div 2)

\* draw is the pair of Math.random() outcomes this call consumes.
updateShake(b, draw) ==
    <<Write(b.element, "x", Plus(b.start.x, random(b.to.n, draw[1]))),
      Write(b.element, "y", Plus(b.start.y, random(b.to.n, draw[2])))>>

\* ease.update(ease): the closure addParam chose for the entry.
UpdateBinding(s, b, draw) ==
    CASE b.entry \in {"scaleX", "skewX"} -> updateCoord(s, b, AxisName(b.entry), "x")
      [] b.entry \in {"scaleY", "skewY"} -> updateCoord(s, b, AxisName(b.entry), "y")
      [] b.entry = "tint" -> updateTint(s, b)
      [] b.entry = "blend" -> updateBlend(s, b)
      [] b.entry = "shake" -> updateShake(b, draw)
      [] b.entry = "position" -> updatePosition(s, b)
      [] b.entry \in {"skew", "scale"} -> updatePoint(s, b, b.entry)
      [] b.entry = "face" -> updateOne(s, b, "rotation")
      [] OTHER -> updateOne(s, b, b.entry)

complete(b) ==
    IF b.entry = "shake"
    THEN <<Write(b.element, "x", b.start.x), Write(b.element, "y", b.start.y)>>
    ELSE <<>>

reverse(b) ==
    IF b.entry = "position"
    THEN [b EXCEPT !.to = [@ EXCEPT !.x = b.start.x, !.y = b.start.y],
                   !.start = [@ EXCEPT !.x = b.to.x, !.y = b.to.y],
                   !.delta = [@ EXCEPT !.x = Neg(b.delta.x), !.y = Neg(b.delta.y)]]
    ELSE [b EXCEPT !.to = b.start, !.start = b.to, !.delta = Num(Neg(b.delta.n))]

\* The writes of repeat(ease); the default branch assigns element[entry].
repeat(b) ==
    CASE b.entry = "skewX" -> <<Write(b.element, "skew.x", b.start.n)>>
      [] b.entry = "skewY" -> <<Write(b.element, "skew.y", b.start.n)>>
      [] b.entry = "skew" -> <<Write(b.element, "skew.x", b.start.n),
                               Write(b.element, "skew.y", b.start.n)>>
      [] b.entry = "scaleX" -> <<Write(b.element, "scale.x", b.start.n)>>
      [] b.entry = "scaleY" -> <<Write(b.element, "scale.y", b.start.n)>>
      [] b.entry = "scale" -> <<Write(b.element, "scale.x", b.start.n),
                                Write(b.element, "scale.y", b.start.n)>>
      [] b.entry = "position" -> <<Write(b.element, "x", b.start.x),
                                   Write(b.element, "y", b.start.y)>>
      [] b.entry = "shake" -> <<Write(b.element, "shake.x", b.start.x),
                                Write(b.element, "shake.y", b.start.y)>>
      [] OTHER -> <<Write(b.element, b.entry, b.start.n)>>

\* The writes of one pass over the bindings: ease.update(ease) for each.
UpdateAll(s, draw) ==
    Flatten([i \in 1..Len(s.eases) |-> UpdateBinding(s, s.eases[i], draw)])

\* What one call of Easing.update hands back: the session after it, the
\* writes to the targets in order, the returned flag, the notifications in
\* order, and what the call did with its time (boundary: a phase boundary was
\* reached; leftover: the overshoot; waited: the part of elapsed the wait
\* took; evalAt: the clocks the bindings were evaluated at, one per pass;
\* pre: how many of the writes were made before 'each' was emitted).
Result(s, wr, fin, ev, boundary, leftover, waited, evalAt, pre) ==
    [s |-> s, wr |-> wr, fin |-> fin, ev |-> ev, boundary |-> boundary,
     leftover |-> leftover, waited |-> waited, evalAt |-> evalAt, pre |-> pre]

\* A boundary test that misses the tick landing exactly on the duration.
AtBoundaryStrict(time, duration) == time > duration

\* this.time >= this.options.duration
AtBoundary(time, duration) == time >= duration

\* A boundary that discards the overshoot.
AfterBoundaryZero(leftover) == 0

\* this.time = leftover, once a reverse or repeat boundary has been crossed.
AfterBoundary(leftover) == leftover

\* A repeat counter that is never counted down.
DecrementNone(n) == n

\* this.options.repeat--
Decrement(n) == n - 1

\* A liveness test that sees no target as destroyed.
DestroyedNever(el) == FALSE

\* (ease.element as any)._destroyed
Destroyed(el) == el["_destroyed"] # 0

\* An update that notifies nobody of the frame.
EachSkipped(ev) == ev

\* this.emit('each', this), after the notifications ev of the call so far.
Each(ev) == ev \o <<"each">>

\* A wait that is still on when the time passed has just used it up.
StillWaitingAtZero(wait) == wait >= 0

\* if (this.options.wait > 0), after this.options.wait -= elapsed
StillWaiting(wait) == wait > 0

\* The branch of update taken at a phase boundary, after 'each'.
PhaseEnd(s, wr1, ev1, leftover, waited, rnd) ==
    IF s.options.reverse
    THEN LET s4 == [s EXCEPT !.eases = [i \in 1..Len(s.eases) |->
                                           reverse(s.eases[i])],
                             !.time = AfterBoundary(leftover)]
             wr2 == IF leftover # 0 THEN UpdateAll(s4, rnd[2]) ELSE <<>>
             s5 == IF ~Repeating(s4.options)
                   THEN [s4 EXCEPT !.options.reverse = FALSE]
                   ELSE IF ~s4.options.repeatTrue
                        THEN [s4 EXCEPT !.options.repeat = Decrement(@)]
                        ELSE s4
         IN Result(s5, wr1 \o wr2, FALSE, ev1 \o <<"reverse">>, TRUE, leftover,
                   waited,
                   IF leftover # 0 THEN <<s.time, s4.time>> ELSE <<s.time>>,
                   Len(wr1))
    ELSE IF Repeating(s.options)
    THEN LET wrR == Flatten([i \in 1..Len(s.eases) |-> repeat(s.eases[i])])
             s4 == [s EXCEPT !.time = AfterBoundary(leftover)]
             wr2 == IF leftover # 0 THEN UpdateAll(s4, rnd[2]) ELSE <<>>
             s5 == IF ~s4.options.repeatTrue
                   THEN [s4 EXCEPT !.options.repeat = Decrement(@)]
                   ELSE s4
         IN Result(s5, wr1 \o wrR \o wr2, FALSE, ev1 \o <<"repeat">>, TRUE,
                   leftover, waited,
                   IF leftover # 0 THEN <<s.time, s4.time>> ELSE <<s.time>>,
                   Len(wr1))
    ELSE Result(s,
                wr1 \o Flatten([i \in 1..Len(s.eases) |-> complete(s.eases[i])]),
                TRUE,
                ev1 \o <<"complete">>, TRUE, leftover, waited, <<s.time>>,
                Len(wr1))

\* Easing.update(elapsed) on session s with the targets in state els; rnd
\* holds the Math.random() outcomes of the first and of the second pass.
EasingUpdate(s, els, elapsed, rnd) ==
    IF Len(s.eases) = 0
    THEN Result(s, <<>>, TRUE, <<>>, FALSE, 0, 0, <<>>, 0)
    ELSE IF s.options.wait # 0 /\ StillWaiting(s.options.wait - elapsed)
    THEN Result([s EXCEPT !.options.wait = @ - elapsed], <<>>, FALSE,
                <<"wait">>, FALSE, 0, elapsed, <<>>, 0)
    ELSE LET waiting == s.options.wait # 0
             elapsed2 == IF waiting THEN 0 - (s.options.wait - elapsed)
                         ELSE elapsed
             ev0 == IF waiting THEN <<"wait-end">> ELSE <<>>
             time1 == s.time + elapsed2
             boundary == AtBoundary(time1, s.options.duration)
             leftover == IF boundary THEN time1 - s.options.duration ELSE 0
             s2 == [s EXCEPT !.options.wait = 0,
                             !.time = IF boundary THEN s.options.duration
                                      ELSE time1,
                             !.eases = SelectSeq(s.eases,
                                 LAMBDA b : ~Destroyed(els[b.element]))]
             wr1 == UpdateAll(s2, rnd[1])
             ev1 == Each(ev0)
         IN IF AtBoundary(s2.time, s2.options.duration)
            THEN PhaseEnd(s2, wr1, ev1, leftover, elapsed - elapsed2, rnd)
            ELSE Result(s2, wr1, FALSE, ev1, FALSE, 0, elapsed - elapsed2,
                        <<s2.time>>, Len(wr1))

\* A remove that matches on the property names only.
removeAnyElement(s, element, params, all) ==
    [s EXCEPT !.eases = SelectSeq(s.eases, LAMBDA b : ~(all \/ b.entry \in params))]

\* Easing.remove(element, params) as the group calls it (two arguments):
\* element 0 stands for an omitted element, params is the set of names and
\* all says that params was omitted.  The session after it; the returned
\* flag is Len(eases) = 0.
remove(s, element, params, all) ==
    [s EXCEPT !.eases = SelectSeq(s.eases,
        LAMBDA b : ~((element = 0 \/ b.element = element)
                     /\ (all \/ b.entry \in params)))]


\* ------------------------------------------------------------------ Ease
MaxSessions == 2
MaxDelta == 4
MaxTicks == 2
MaxRAF == 3

\* new Ease(options): ticker says that a ticker was injected; maxFrame is
\* options.maxFrame in the model's unit of time.
NewEase(ticker, useRAF) ==
    [options |-> [ticker |-> ticker, useRAF |-> useRAF, maxFrame |-> MaxElapsed],
     easings |-> <<>>,
     empty |-> TRUE,
     handleRAF |-> 0,
     raf |-> {},
     tickerOn |-> ticker]

\* requestAnimationFrame: a handle the host has not given out and still
\* holds, nor the one the group remembers.
NewHandle(g) == CHOOSE n \in 1..(MaxRAF + 2) : n \notin g.raf /\ n # g.handleRAF

\* this.handleRAF = requestAnimationFrame(() => this.update())
Request(g) == [g EXCEPT !.handleRAF = NewHandle(g), !.raf = @ \cup {NewHandle(g)}]

\* if (this.options.useRAF && this.handleRAF) { cancelAnimationFrame(...);
\* this.handleRAF = null }
Cancel(g) ==
    IF g.options.useRAF /\ g.handleRAF # 0
    THEN [g EXCEPT !.raf = @ \ {g.handleRAF}, !.handleRAF = 0]
    ELSE g

\* array.indexOf(x): 0-based, -1 when absent.
IndexOf(seq, x) ==
    IF \E i \in 1..Len(seq) : seq[i] = x
    THEN (CHOOSE i \in 1..Len(seq) : seq[i] = x /\ \A j \in 1..(i - 1) : seq[j] # x) - 1
    ELSE -1

\* array.splice(index, 1): a negative index counts from the end.
Splice(seq, index) ==
    LET at == IF index < 0 THEN (IF Len(seq) + index < 0 THEN 0 ELSE Len(seq) + index)
              ELSE index
    IN [i \in 1..(IF at < Len(seq) THEN Len(seq) - 1 ELSE Len(seq)) |->
           IF i <= at THEN seq[i] ELSE seq[i + 1]]

\* Ease.add, the group's side: push, request a frame if the group was empty.
add(g, id) ==
    LET g1 == [g EXCEPT !.easings = Append(@, id)]
        g2 == IF g.empty /\ g.options.useRAF THEN Request(g1) ELSE g1
    IN [g2 EXCEPT !.empty = FALSE]

\* Ease.removeAll
removeAll(g) == Cancel([g EXCEPT !.easings = <<>>, !.empty = TRUE])

\* Ease.destroy
destroy(g) ==
    LET g1 == removeAll(g)
    IN IF g1.options.ticker THEN [g1 EXCEPT !.tickerOn = FALSE]
       ELSE Cancel(g1)

\* Ease.removeEase, the group's side: ss are the sessions after
\* easing.remove(element, param) ran on each session of easings.
removeEase(g, ss) ==
    LET g1 == [g EXCEPT !.easings =
                   SelectSeq(g.easings, LAMBDA id : Len(ss[id].eases) # 0)]
    IN IF Len(g1.easings) = 0 THEN Cancel([g1 EXCEPT !.empty = TRUE]) ELSE g1

\* The end of Ease.update: request the next frame if sessions remain.
Rearm(g) ==
    IF g.options.useRAF /\ Len(g.easings) # 0 THEN Request(g)
    ELSE [g EXCEPT !.handleRAF = 0]

\* A loop that runs over the live list instead of a copy of it.
LoopOverLive(list, easings) == easings

\* What the loop of Ease.update runs over: the copy made at its start.
LoopOver(list, easings) == list

\* ------------------------------------------------------------------ state
VARIABLES
    elements,   \* the targets: element -> field -> value
    sessions,   \* the Easing objects created so far, by id (1, 2, ...)
    hist,       \* what the calls of update on session 1 did so far
    group,      \* the Ease object: options, easings, empty, handleRAF, and
                \* the host's side of it: the frame requests outstanding
                \* (raf) and whether the ticker holds its callback (tickerOn)
    tick,       \* where Ease.update stands: pc, its snapshot list, the index
                \* of its loop, its elapsed, the session it just updated
    log         \* what the group did: sessions dropped by remove or
                \* destroy, calls of update in the running tick, ...

vars == <<elements, sessions, hist, group, tick, log>>

\* Ease.update is not running.
Idle ==
    [pc |-> "idle", list |-> <<>>, idx |-> 0, elapsed |-> 0, cur |-> 0,
     fin |-> FALSE, ev |-> <<>>]

\* dropped: the sessions remove or destroy took out of the group; late: those
\* of them whose update the group called afterwards; lateWrite: those of them
\* that then wrote to a target; and of the running (or last) tick: live0, the
\* sessions live at its start, updated, the sessions its loop called update
\* on, in order, added, the sessions added while it ran, gone, the sessions
\* remove or destroy dropped while it ran; ticks: the calls of Ease.update
\* so far.
NoLog ==
    [dropped |-> {}, late |-> {}, lateWrite |-> {}, live0 |-> {},
     updated |-> <<>>, added |-> {}, gone |-> {}, ticks |-> 0]

Range(seq) == {seq[i] : i \in 1..Len(seq)}

\* ------------------------------------------------ one session, driven directly
\* The parameter add() is given for an entry in the sessions of the model.
ParamOf(entry) ==
    CASE entry = "alpha" -> PNum(3 * Unit)
      [] entry = "scaleX" -> PNum(2 * Unit)
      [] entry = "scaleY" -> PNum(0)
      [] entry = "skewX" -> PNum(Unit)
      [] entry = "skewY" -> PNum(0 - Unit)
      [] entry = "scale" -> PNum(2 * Unit)
      [] entry = "skew" -> PNum(Unit)
      [] entry = "position" -> PPt(0, 3 * Unit)
      [] entry = "face" -> PPt(Unit, 3 * Unit)
      [] entry = "tint" -> PArr(<<16711680, 65280>>)
      [] entry = "blend" -> PArr(<<16711680, 65280>>)
      [] OTHER -> PNum(2)

\* The (elements, params) a session of the model is created with: every
\* entry alone on element 1, and some on two elements or with two params.
Setups ==
    {<<<<1>>, <<<<e, ParamOf(e)>>>>>> : e \in Entries}
    \cup {<<<<1, 2>>, <<<<"alpha", PNum(0)>>>>>>,
          <<<<2>>, <<<<"tint", PNum(255)>>>>>>,
          <<<<2>>, <<<<"blend", PNum(255)>>>>>>,
          <<<<1, 2>>, <<<<"face", ParamOf("face")>>>>>>,
          <<<<1, 2>>, <<<<"position", ParamOf("position")>>,
                       <<"scale", ParamOf("scale")>>>>>>}

HasShake(s) == \E i \in 1..Len(s.eases) : s.eases[i].entry = "shake"

NoDraw == <<0, 0>>

\* The Math.random() outcomes update(elapsed) may consume on session s: a
\* pair per pass that runs updateShake, none where no pass runs it.
Draws(s, els, elapsed) ==
    LET passes == Len(EasingUpdate(s, els, elapsed, <<NoDraw, NoDraw>>).evalAt)
        pairs == {<<a, b>> : a, b \in 0..(MaxRandom - 1)}
    IN IF ~HasShake(s) \/ passes = 0 THEN {<<NoDraw, NoDraw>>}
       ELSE IF passes = 1 THEN {<<d, NoDraw>> : d \in pairs}
       ELSE {<<d, e>> : d, e \in pairs}

\* What hist keeps of the last call: the returned flag, the notifications,
\* the clocks the bindings were evaluated at, the fields written with a value
\* other than the one they held when the call began, the fields written,
\* the targets that were flagged destroyed when the call began, the number
\* of bindings the session had when the call began, the fields written
\* before 'each' was emitted.
NoCall ==
    [fin |-> FALSE, ev |-> <<>>, boundary |-> FALSE, leftover |-> 0,
     evalAt |-> <<>>, elapsed |-> 0, changed |-> {}, wrote |-> {},
     dead |-> {}, had |-> 0, before |-> {}]

InitEasing ==
    /\ elements = [e \in Elements |-> NewElement(e)]
    /\ \E setup \in Setups, curve \in Curves, D \in 1..MaxDuration,
          rev \in BOOLEAN, rep \in 0..MaxRepeat, repTrue \in BOOLEAN,
          wait \in 0..MaxWait :
          /\ repTrue => rep = 0
          /\ sessions = [i \in {1} |->
                 NewEasing(setup[1], setup[2],
                           Options(curve, D, rev, rep, repTrue, wait),
                           [e \in Elements |-> NewElement(e)])]
    /\ hist = [calls |-> 0, sum |-> 0, waited |-> 0, crossings |-> 0,
               finished |-> FALSE, doneAt |-> 0, repeats |-> 0,
               overshoot |-> FALSE, waitEnds |-> 0,
               s0 |-> sessions[1], last |-> NoCall]
    /\ group = NewEase(FALSE, FALSE)
    /\ tick = Idle
    /\ log = NoLog

\* easing.update(elapsed), called on session 1.
Update(elapsed, rnd) ==
    /\ hist.calls < MaxCalls
    /\ \E r \in {EasingUpdate(sessions[1], elements, elapsed, rnd)} :
          /\ sessions' = [sessions EXCEPT ![1] = r.s]
          /\ elements' = ApplyWrites(elements, r.wr)
          /\ hist' = [hist EXCEPT
                 !.calls = @ + 1,
                 !.sum = @ + elapsed,
                 !.waited = @ + r.waited,
                 !.crossings = @ + (IF r.boundary /\ ~r.fin THEN 1 ELSE 0),
                 !.finished = @ \/ r.fin,
                 !.doneAt = IF @ = 0 /\ r.fin THEN hist.calls + 1 ELSE @,
                 !.repeats = @ + Len(SelectSeq(r.ev, LAMBDA e : e = "repeat")),
                 !.overshoot = @ \/ r.leftover # 0,
                 !.waitEnds = @ + Len(SelectSeq(r.ev, LAMBDA e : e = "wait-end")),
                 !.last = [fin |-> r.fin, ev |-> r.ev,
                           boundary |-> r.boundary, leftover |-> r.leftover,
                           evalAt |-> r.evalAt, elapsed |-> elapsed,
                           changed |-> {<<r.wr[i].el, r.wr[i].f>> :
                               i \in {j \in 1..Len(r.wr) :
                                   r.wr[j].v # elements[r.wr[j].el][r.wr[j].f]}},
                           wrote |-> {<<r.wr[i].el, r.wr[i].f>> :
                               i \in 1..Len(r.wr)},
                           dead |-> {e \in Elements :
                               elements[e]["_destroyed"] = 1},
                           had |-> Len(sessions[1].eases),
                           before |-> {<<r.wr[i].el, r.wr[i].f>> :
                               i \in 1..r.pre}]]
          /\ UNCHANGED <<group, tick, log>>

\* The owner of a target of the session destroys it between two calls.
DestroyTarget(e) ==
    /\ \E i \in 1..Len(hist.s0.elements) : hist.s0.elements[i] = e
    /\ hist.calls < MaxCalls
    /\ elements[e]["_destroyed"] = 0
    /\ elements' = [elements EXCEPT ![e]["_destroyed"] = 1]
    /\ UNCHANGED <<sessions, hist, group, tick, log>>

NextEasing ==
    \/ \E elapsed \in 0..MaxElapsed :
          \E rnd \in Draws(sessions[1], elements, elapsed) : Update(elapsed, rnd)
    \/ \E e \in Elements : DestroyTarget(e)

SpecEasing == InitEasing /\ [][NextEasing]_vars


\* ------------------------------------------------ the group and its ticks
\* The sessions add() is given in the group: one target or two, one
\* parameter or two.
GroupSetups ==
    {<<<<1>>, <<<<"alpha", PNum(3 * Unit)>>>>>>,
     <<<<1, 2>>, <<<<"alpha", PNum(0)>>, <<"position", PPt(0, 3 * Unit)>>>>>>}

Init ==
    /\ elements = [e \in Elements |-> NewElement(e)]
    /\ sessions = <<>>
    /\ hist = [calls |-> 0]
    /\ \E ticker \in BOOLEAN, useRAF \in BOOLEAN : group = NewEase(ticker, useRAF)
    /\ tick = Idle
    /\ log = NoLog

\* The time a tick can be given: less than a session's duration, more than
\* maxFrame.
Deltas == {1, MaxDelta}

InTick == tick.pc # "idle"

\* The group's methods are called between ticks, or from a callback of a
\* notification emitted within a tick: the last one of the session just
\* updated (nothing of its update is left to run but the return), the
\* group's 'each', the group's 'complete'.
CanCall ==
    \/ tick.pc = "idle"
    \/ tick.pc = "cb" /\ tick.ev # <<>>
    \/ tick.pc \in {"gEach", "gComplete"}

\* ease.add(element, params, options)
Add(setup, repTrue) ==
    /\ CanCall
    /\ Len(sessions) < MaxSessions
    /\ sessions' = Append(sessions,
           NewEasing(setup[1], setup[2],
                     Options("linear", MaxDuration, FALSE, 0, repTrue, 0),
                     elements))
    /\ group' = add(group, Len(sessions) + 1)
    /\ Cardinality(group'.raf) <= MaxRAF
    /\ log' = IF InTick THEN [log EXCEPT !.added = @ \cup {Len(sessions) + 1}]
              ELSE log
    /\ UNCHANGED <<elements, hist, tick>>

\* ease.removeEase(element, param): element 0 for no element, all for no
\* param.
Remove(element, params, all) ==
    /\ CanCall
    /\ UNCHANGED <<elements, hist, tick>>
    /\ sessions' = [id \in DOMAIN sessions |->
           IF id \in Range(group.easings)
           THEN remove(sessions[id], element, params, all)
           ELSE sessions[id]]
    /\ group' = removeEase(group, sessions')
    /\ log' = [log EXCEPT
           !.dropped = @ \cup (Range(group.easings) \ Range(group'.easings)),
           !.gone = IF InTick
                    THEN @ \cup (Range(group.easings) \ Range(group'.easings))
                    ELSE @]

\* ease.destroy()
Destroy ==
    /\ CanCall
    /\ group' = destroy(group)
    /\ log' = [log EXCEPT
           !.dropped = @ \cup Range(group.easings),
           !.gone = IF InTick THEN @ \cup Range(group.easings) ELSE @]
    /\ UNCHANGED <<elements, sessions, hist, tick>>

\* Ease.update up to its loop, on the group g the caller left: delta is
\* ticker.elapsedMS, Date.now() - lastTime, or the argument.  An empty
\* group goes straight to the end of update.
BeginUpdate(g, delta) ==
    /\ log.ticks < MaxTicks
    /\ IF ~g.empty
       THEN /\ group' = g
            /\ tick' = [Idle EXCEPT !.pc = "loop", !.list = g.easings, !.idx = 1,
                                    !.elapsed = Min(delta, g.options.maxFrame)]
       ELSE /\ group' = Rearm(g)
            /\ tick' = Idle
    /\ Cardinality(group'.raf) <= MaxRAF
    /\ log' = [log EXCEPT !.live0 = IF g.empty THEN {} ELSE Range(g.easings),
                          !.updated = <<>>, !.added = {}, !.gone = {},
                          !.ticks = @ + 1]
    /\ UNCHANGED <<elements, sessions, hist>>

\* The host runs the frame callback the group requested under handle h.
Frame(h, delta) ==
    /\ tick.pc = "idle"
    /\ h \in group.raf
    /\ BeginUpdate([group EXCEPT !.raf = @ \ {h}], delta)

\* The injected ticker runs the callback it holds.
TickerTick(delta) ==
    /\ tick.pc = "idle"
    /\ group.tickerOn
    /\ BeginUpdate(group, delta)

\* With neither ticker nor frame requests, the owner calls update(elapsed).
ManualUpdate(delta) ==
    /\ tick.pc = "idle"
    /\ ~group.options.ticker /\ ~group.options.useRAF
    /\ BeginUpdate(group, delta)

\* One turn of the loop: easing.update(elapsed), up to its return.
LoopStep ==
    /\ tick.pc = "loop"
    /\ tick.idx <= Len(LoopOver(tick.list, group.easings))
    /\ LET id == LoopOver(tick.list, group.easings)[tick.idx]
       IN \E rnd \in Draws(sessions[id], elements, tick.elapsed) :
          \E r \in {EasingUpdate(sessions[id], elements, tick.elapsed, rnd)} :
             /\ sessions' = [sessions EXCEPT ![id] = r.s]
             /\ elements' = ApplyWrites(elements, r.wr)
             /\ tick' = [tick EXCEPT !.pc = "cb", !.cur = id, !.fin = r.fin,
                                     !.ev = r.ev]
             /\ log' = [log EXCEPT
                    !.updated = Append(@, id),
                    !.late = IF id \in log.dropped THEN @ \cup {id} ELSE @,
                    !.lateWrite = IF id \in log.dropped /\ r.wr # <<>>
                                  THEN @ \cup {id} ELSE @]
    /\ UNCHANGED <<hist, group>>

\* easing.update returned: a finished session is spliced out.
LoopReturn ==
    /\ tick.pc = "cb"
    /\ group' = IF tick.fin
                THEN [group EXCEPT !.easings =
                         Splice(@, IndexOf(group.easings, tick.cur))]
                ELSE group
    /\ tick' = [tick EXCEPT !.pc = "loop", !.idx = @ + 1, !.ev = <<>>]
    /\ UNCHANGED <<elements, sessions, hist, log>>

\* The loop is over: this.emit('each', this).
LoopEnd ==
    /\ tick.pc = "loop"
    /\ tick.idx > Len(LoopOver(tick.list, group.easings))
    /\ tick' = [tick EXCEPT !.pc = "gEach"]
    /\ UNCHANGED <<elements, sessions, hist, group, log>>

\* After 'each': an emptied group sets empty and emits 'complete'; otherwise
\* update ends.
AfterEach ==
    /\ tick.pc = "gEach"
    /\ IF Len(group.easings) = 0
       THEN /\ group' = [group EXCEPT !.empty = TRUE]
            /\ tick' = [tick EXCEPT !.pc = "gComplete"]
       ELSE /\ group' = Rearm(group)
            /\ tick' = Idle
    /\ Cardinality(group'.raf) <= MaxRAF
    /\ UNCHANGED <<elements, sessions, hist, log>>

\* After 'complete': update ends.
AfterComplete ==
    /\ tick.pc = "gComplete"
    /\ group' = Rearm(group)
    /\ Cardinality(group'.raf) <= MaxRAF
    /\ tick' = Idle
    /\ UNCHANGED <<elements, sessions, hist, log>>

Next ==
    \/ \E setup \in GroupSetups, repTrue \in BOOLEAN : Add(setup, repTrue)
    \/ \E element \in Elements \cup {0} : Remove(element, {}, TRUE)
    \/ Remove(0, {"alpha"}, FALSE)
    \/ Destroy
    \/ \E h \in group.raf, delta \in Deltas : Frame(h, delta)
    \/ \E delta \in Deltas : TickerTick(delta)
    \/ \E delta \in Deltas : ManualUpdate(delta)
    \/ LoopStep
    \/ LoopReturn
    \/ LoopEnd
    \/ AfterEach
    \/ AfterComplete

Spec == Init /\ [][Next]_vars

\* ------------------------------------------------ shortestAngle, called alone
\* The start rotations (two turns around 0) and the bearings (what
\* Math.atan2 returns: -PI..PI) shortestAngle is given, in model units.
Starts == (0 - 2 * PI)..(2 * PI)
Bearings == (0 - PI)..PI

InitAngle ==
    /\ elements = [e \in Elements |-> NewElement(e)]
    /\ sessions = <<>>
    /\ \E start \in Starts, finish \in Bearings :
          hist = [calls |-> 0, start |-> start, finish |-> finish, delta |-> NaN]
    /\ group = NewEase(FALSE, FALSE)
    /\ tick = Idle
    /\ log = NoLog

\* Easing.shortestAngle(start, finish)
ShortestAngle ==
    /\ hist.calls = 0
    /\ hist' = [hist EXCEPT !.calls = 1,
                            !.delta = shortestAngle(hist.start, hist.finish)]
    /\ UNCHANGED <<elements, sessions, group, tick, log>>

NextAngle == ShortestAngle

SpecAngle == InitAngle /\ [][NextAngle]_vars

\* ------------------------------------------------ facing a point
\* Ease.face: the angle it passes to add() as the goal of rotation, and the
\* duration it sets.
FaceAngle(el, target) ==
    shortestAngle(el["rotation"], atan2(target.y - el["y"], target.x - el["x"]))

FaceDuration(el, target, speed) == Abs(FaceAngle(el, target) - el["rotation"]) \div speed

\* The rotations element 1 starts with (eighths of a turn, two turns around
\* 0), the points it is turned to (the eight directions around it and its
\* own position) and the speeds face() is given.
Rotations == {k * Unit : k \in -16..16}
Offsets == {<<dx * Unit, dy * Unit>> : dx, dy \in -1..1}
Speeds == {k * Unit : k \in 1..8}

InitFace ==
    /\ \E rotation \in Rotations, off \in Offsets :
          /\ elements = [e \in Elements |->
                 IF e = 1 THEN [NewElement(1) EXCEPT !["rotation"] = rotation]
                 ELSE NewElement(e)]
          /\ hist = [calls |-> 0, rotation |-> rotation,
                     target |-> Pt(NewElement(1)["x"] + off[1],
                                   NewElement(1)["y"] + off[2]),
                     bearing |-> atan2(off[2], off[1])]
    /\ sessions = <<>>
    /\ group = NewEase(FALSE, FALSE)
    /\ tick = Idle
    /\ log = NoLog

\* ease.add(element, {face: target}, {duration: D})
AddFace(D) ==
    /\ hist.calls = 0
    /\ sessions' = <<NewEasing(<<1>>,
                        <<<<"face", PPt(hist.target.x, hist.target.y)>>>>,
                        Options("linear", D, FALSE, 0, FALSE, 0), elements)>>
    /\ group' = add(group, 1)
    /\ hist' = [hist EXCEPT !.calls = 1]
    /\ UNCHANGED <<elements, tick, log>>

\* ease.face(element, target, speed), for the speeds that give a duration
\* the curves of the model are exact on.
GroupFace(speed) ==
    /\ hist.calls = 0
    /\ FaceDuration(elements[1], hist.target, speed) \in 1..MaxDuration
    /\ FaceDuration(elements[1], hist.target, speed) * speed
           = Abs(FaceAngle(elements[1], hist.target) - elements[1]["rotation"])
    /\ sessions' = <<NewEasing(<<1>>,
                        <<<<"rotation", PNum(FaceAngle(elements[1], hist.target))>>>>,
                        Options("linear",
                                FaceDuration(elements[1], hist.target, speed),
                                FALSE, 0, FALSE, 0),
                        elements)>>
    /\ group' = add(group, 1)
    /\ hist' = [hist EXCEPT !.calls = 1]
    /\ UNCHANGED <<elements, tick, log>>

\* The session runs to the end of its phase in one update.
FinishFace ==
    /\ hist.calls = 1
    /\ \E r \in {EasingUpdate(sessions[1], elements,
                              sessions[1].options.duration, <<NoDraw, NoDraw>>)} :
          /\ sessions' = [sessions EXCEPT ![1] = r.s]
          /\ elements' = ApplyWrites(elements, r.wr)
    /\ hist' = [hist EXCEPT !.calls = 2]
    /\ UNCHANGED <<group, tick, log>>

NextFace ==
    \/ \E D \in 1..MaxDuration : AddFace(D)
    \/ \E speed \in Speeds : GroupFace(speed)
    \/ FinishFace

SpecFace == InitFace /\ [][NextFace]_vars

\* ------------------------------------------------------------------ claims
\* The session SpecEasing drives, and the session as it was registered.
S == sessions[1]
S0 == hist.s0

\* No wait, no reverse, no repeat.
Plain(s) == s.options.wait = 0 /\ ~s.options.reverse /\ ~Repeating(s.options)

\* The session was given bindings and has dropped none of them.
Intact == Len(S0.eases) > 0 /\ Len(S.eases) = Len(S0.eases)

\* The target fields binding b drives.
Driven(b) ==
    CASE b.entry \in {"scaleX", "skewX"} -> {FieldX(AxisName(b.entry))}
      [] b.entry \in {"scaleY", "skewY"} -> {FieldY(AxisName(b.entry))}
      [] b.entry \in {"scale", "skew"} -> {FieldX(b.entry), FieldY(b.entry)}
      [] b.entry \in {"position", "shake"} -> {"x", "y"}
      [] b.entry \in {"tint", "blend"} -> {"tint"}
      [] b.entry = "face" -> {"rotation"}
      [] OTHER -> {b.entry}

\* The entries whose value is a number or a point run through the curve.
Curved(b) == b.entry \notin {"tint", "blend", "shake"}

\* The part of value v (a start or a goal of binding b) that field f takes.
Part(b, v, f) ==
    IF b.entry \in {"position", "shake"} THEN (IF f = "x" THEN v.x ELSE v.y)
    ELSE v.n

\* C1: a session with no wait, reverse or repeat, with duration D, whose
\* bindings are all in place, has not reported finished while the elapsed
\* values passed sum to less than D; once they sum to exactly D the call
\* that got there returned finished = true and every curved property holds
\* its declared goal, start + delta.
C1_FinishesAtGoal ==
    (Plain(S0) /\ Intact) =>
        /\ hist.sum < S0.options.duration => ~hist.finished
        /\ (hist.sum = S0.options.duration /\ hist.calls > 0) =>
              /\ hist.last.fin
              /\ \A i \in 1..Len(S0.eases) :
                    Curved(S0.eases[i]) =>
                        \A f \in Driven(S0.eases[i]) :
                            elements[S0.eases[i].element][f]
                                = Part(S0.eases[i], S0.eases[i].start, f)
                                  + Part(S0.eases[i], S0.eases[i].delta, f)

C1_Witness ==
    /\ Plain(S0) /\ Intact
    /\ S0.eases[1].entry = "alpha"
    /\ S0.options.duration = 2
    /\ hist.calls = 2 /\ hist.sum = 2 /\ hist.last.elapsed = 1
    /\ hist.last.fin
    /\ elements[1]["alpha"] = 3 * Unit

\* C2: the session clock never exceeds the duration, neither between calls
\* nor at any evaluation of the bindings, for every elapsed value up to
\* MaxElapsed.
C2_ClockWithinDuration ==
    /\ S.time >= 0 /\ S.time <= S.options.duration
    /\ \A i \in 1..Len(hist.last.evalAt) :
          hist.last.evalAt[i] <= S.options.duration

\* C3: a session with reverse set and repeat unset that went through its
\* forward and its reverse phase, each ended with no overshoot, has reported
\* finished and every field its bindings drive holds the binding's original
\* start (for tint and blend, the colour the target had at registration).
C3_ReverseRoundTrip ==
    (/\ S0.options.reverse /\ ~Repeating(S0.options) /\ Intact
     /\ ~hist.overshoot /\ hist.crossings = 1 /\ hist.last.boundary
     /\ hist.calls = hist.doneAt) =>
        /\ hist.last.fin
        /\ \A i \in 1..Len(S0.eases) :
              \A f \in Driven(S0.eases[i]) :
                  elements[S0.eases[i].element][f]
                      = IF S0.eases[i].entry \in {"tint", "blend"}
                        THEN NewElement(S0.eases[i].element)["tint"]
                        ELSE Part(S0.eases[i], S0.eases[i].start, f)

\* C4: with reverse unset and the bindings in place, a session given the
\* repeat count n >= 1 has emitted as many repeat notifications as its
\* counter has gone down, every phase boundary either emits repeat or, once
\* the counter is 0, completes and returns finished = true, so finished is
\* reported after exactly n repeats; a session given repeat = true never
\* reports finished.
C4_RepeatCount ==
    (~S0.options.reverse /\ Intact) =>
        /\ S0.options.repeat >= 1 =>
              /\ hist.repeats + S.options.repeat = S0.options.repeat
              /\ hist.finished => hist.repeats = S0.options.repeat
              /\ hist.last.boundary =>
                    IF hist.last.fin
                    THEN hist.last.ev[Len(hist.last.ev)] = "complete"
                         /\ S.options.repeat = 0
                    ELSE hist.last.ev[Len(hist.last.ev)] = "repeat"
              /\ hist.last.fin => hist.last.boundary
        /\ S0.options.repeatTrue => ~hist.finished

C4_Witness ==
    /\ ~S0.options.reverse /\ Intact
    /\ S0.options.repeat = 2
    /\ hist.repeats = 2 /\ hist.last.fin /\ S.options.repeat = 0

\* C5: a call of update on a plain session that has already reported
\* finished writes no target field with a value other than the one it held.
C5_NoWriteAfterFinished ==
    (Plain(S0) /\ hist.doneAt # 0 /\ hist.calls > hist.doneAt) =>
        hist.last.changed = {}

\* C10 as stated: until the session reports finished the elapsed values
\* passed sum to the time the wait took, plus the duration for every reverse
\* or repeat boundary crossed, plus the clock; and after a call that crossed
\* such a boundary the clock is the overshoot and the bindings were last
\* evaluated at that clock.
C10_Original ==
    /\ ~hist.finished =>
          hist.sum = hist.waited + hist.crossings * S.options.duration + S.time
    /\ (hist.last.boundary /\ ~hist.last.fin) =>
          /\ S.time = hist.last.leftover
          /\ hist.last.evalAt # <<>>
          /\ hist.last.evalAt[Len(hist.last.evalAt)] = S.time

\* C10, amended: the same, the bindings being evaluated again at the new
\* clock only when the overshoot is not zero.
C10_LeftoverConserved ==
    /\ ~hist.finished =>
          hist.sum = hist.waited + hist.crossings * S.options.duration + S.time
    /\ (hist.last.boundary /\ ~hist.last.fin) =>
          /\ S.time = hist.last.leftover
          /\ hist.last.leftover # 0 =>
                /\ hist.last.evalAt # <<>>
                /\ hist.last.evalAt[Len(hist.last.evalAt)] = S.time

C10_Witness ==
    /\ hist.last.boundary /\ ~hist.last.fin
    /\ hist.last.leftover > 0 /\ hist.waited > 0 /\ hist.crossings = 2
    /\ Len(S.eases) > 0
    /\ Len(hist.last.evalAt) = 2


\* ---------------------------------------------------- claims about the group
\* The group drives itself by frame requests, and by them only.
AutoTick == group.options.useRAF /\ ~group.options.ticker

\* The group holds a subscription to the ticker or a frame request.
Subscribed == group.tickerOn \/ group.raf # {}

\* The update loop of the running tick is over.
LoopDone ==
    \/ tick.pc \in {"gEach", "gComplete"}
    \/ tick.pc = "loop" /\ tick.idx > Len(LoopOver(tick.list, group.easings))

Count(seq, x) == Cardinality({i \in 1..Len(seq) : seq[i] = x})

\* C6: in auto-tick mode at most one frame request of the group is
\* outstanding, whatever add, remove, destroy and ticks came before, callbacks
\* within a tick included; and between operations a request is outstanding
\* only if sessions remain.
C6_OneFrameRequest ==
    AutoTick =>
        /\ Cardinality(group.raf) <= 1
        /\ (tick.pc = "idle" /\ group.raf # {} => Len(group.easings) > 0)

\* C7: once remove or destroy dropped a session from the group, within a
\* tick or between ticks, the group does not call its update again, and
\* nothing is written to a target on its behalf.
C7_CancellationImmediate == log.late = {} /\ log.lateWrite = {}

\* C8: within one tick no session is updated twice, a session added during
\* the tick is not updated in it, and when the loop is over every session
\* that was live at the start of the tick and was not removed during it has
\* been updated exactly once.
C8_SnapshotIteration ==
    /\ \A id \in DOMAIN sessions : Count(log.updated, id) <= 1
    /\ \A id \in log.added : Count(log.updated, id) = 0
    /\ LoopDone => \A id \in log.live0 \ log.gone : Count(log.updated, id) = 1

\* A tick over two live sessions whose first finished and was spliced out
\* of the live list before the second was updated, its loop over.
C8_Witness ==
    /\ tick.pc = "gEach"
    /\ log.live0 = {1, 2}
    /\ log.gone = {}
    /\ log.updated = <<1, 2>>
    /\ group.easings = <<2>>

\* C9: between operations the group holds a ticker subscription or a frame
\* request exactly when it has a live session: none for a group nothing
\* was ever added to, ticker or not; one while a session is live in
\* auto-tick mode; none once the group is empty.
C9_LazySubscription ==
    tick.pc = "idle" =>
        /\ (Len(sessions) = 0 => ~Subscribed)
        /\ (AutoTick /\ Len(group.easings) > 0 => Subscribed)
        /\ (Len(group.easings) = 0 => ~Subscribed)


\* ------------------------------------------- claims about one session, again
\* C11: for a session with wait W > 0, a call of update after which the
\* elapsed values passed still sum to less than W emitted wait and nothing
\* else, returned finished = false, wrote no target and left the clock at 0;
\* once they sum to W or more, wait-end has been emitted exactly once and the
\* wait has taken exactly W of the time passed; the call that emitted
\* wait-end advanced the clock by the overshoot, sum - W (what of it exceeds
\* the duration being the leftover of that call).
C11_WaitPhase ==
    (S0.options.wait > 0 /\ hist.calls > 0) =>
        /\ hist.sum < S0.options.wait =>
              /\ hist.last.ev = <<"wait">>
              /\ ~hist.last.fin
              /\ hist.last.wrote = {}
              /\ S.time = 0
              /\ hist.waitEnds = 0
        /\ hist.sum >= S0.options.wait =>
              /\ hist.waitEnds = 1
              /\ hist.waited = S0.options.wait
        /\ (hist.last.ev # <<>> /\ hist.last.ev[1] = "wait-end") =>
              /\ hist.last.evalAt[1] + hist.last.leftover
                     = hist.sum - S0.options.wait
              /\ ~hist.last.boundary => S.time = hist.sum - S0.options.wait

\* A wait of 2 counted down by two calls of 1 (wait, then wait-end with no
\* overshoot), then a call that moves the clock.
C11_Witness ==
    /\ S0.options.wait = 2 /\ S0.options.duration = 2
    /\ hist.calls = 3 /\ hist.sum = 3
    /\ hist.waited = 2 /\ hist.waitEnds = 1
    /\ S.time = 1 /\ hist.last.elapsed = 1


\* C12: the delta shortestAngle(start, bearing) returns lies in the half-open
\* interval -PI < delta <= PI, and start + delta is the bearing modulo a
\* full turn.
C12_ShortestAngle ==
    hist.calls = 1 =>
        /\ hist.delta > 0 - PI /\ hist.delta <= PI
        /\ mod(hist.start + hist.delta - hist.finish, 2 * PI) = 0


\* C13: the binding a facing tween is created with, by the 'face' entry or
\* by the group's face(), has |goal - start| = |delta| <= PI, and the
\* rotation written at the end of the phase is within half a turn of the
\* starting rotation and is the bearing of the target, modulo a full turn.
C13_FaceHalfTurn ==
    hist.calls >= 1 =>
        /\ Abs(sessions[1].eases[1].delta.n) <= PI
        /\ Abs(sessions[1].eases[1].to.n - sessions[1].eases[1].start.n) <= PI
        /\ hist.calls = 2 =>
              /\ Abs(elements[1]["rotation"] - hist.rotation) <= PI
              /\ mod(elements[1]["rotation"] - hist.bearing, 2 * PI) = 0


\* The last call of update emitted notification e.
Emitted(e) == \E i \in 1..Len(hist.last.ev) : hist.last.ev[i] = e

\* C14: after a call of update in which a session with a shake binding
\* crossed a repeat boundary or completed, the target's x and y are the
\* position recorded as start when the binding was registered, whatever the
\* reverse and repeat options.
C14_ShakeReset ==
    (/\ S0.eases[1].entry = "shake" /\ Intact /\ hist.calls > 0
     /\ (Emitted("repeat") \/ Emitted("complete"))) =>
        /\ elements[1]["x"] = S0.eases[1].start.x
        /\ elements[1]["y"] = S0.eases[1].start.y


\* C15: when a session with repeat set and reverse unset reaches a phase
\* boundary with no leftover and does not complete, the call emits repeat,
\* and after it every field driven by a scalar, axis, two-axis, point or
\* facing binding holds that binding's start (the rotation, for a facing
\* binding).
C15_RepeatReset ==
    (/\ ~S0.options.reverse /\ Repeating(S0.options) /\ Intact
     /\ hist.last.boundary /\ ~hist.last.fin /\ hist.last.leftover = 0) =>
        /\ Emitted("repeat")
        /\ \A i \in 1..Len(S0.eases) :
              Curved(S0.eases[i]) =>
                  \A f \in Driven(S0.eases[i]) :
                      elements[S0.eases[i].element][f]
                          = Part(S0.eases[i], S0.eases[i].start, f)


\* ---------------------------------------------- claims about the group, again
\* Binding b is one remove(element, params) asks for: element 0 is no
\* element, all is no names.
Matches(b, element, params, all) ==
    (element = 0 \/ b.element = element) /\ (all \/ b.entry \in params)

\* What a call of remove(element, params) has to leave behind.
RemovePost(element, params, all) ==
    /\ \A id \in DOMAIN sessions :
          sessions'[id] =
              IF id \in Range(group.easings)
              THEN [sessions[id] EXCEPT !.eases = SelectSeq(@,
                       LAMBDA b : ~Matches(b, element, params, all))]
              ELSE sessions[id]
    /\ group'.easings = SelectSeq(group.easings,
           LAMBDA id : \E i \in 1..Len(sessions[id].eases) :
               ~Matches(sessions[id].eases[i], element, params, all))
    /\ Len(group'.easings) = 0 =>
          /\ group'.empty
          /\ group.options.useRAF =>
                /\ group'.handleRAF = 0
                /\ group.handleRAF \notin group'.raf
                /\ group.raf \subseteq {group.handleRAF} => group'.raf = {}
    /\ Len(group'.easings) # 0 => group'.raf = group.raf
    /\ elements' = elements

C17_ShakeConfined ==
    (S0.eases[1].entry = "shake" /\ ~hist.finished) =>
        /\ 2 * Abs(elements[1]["x"] - S0.eases[1].start.x) <= S0.eases[1].to.n
        /\ 2 * Abs(elements[1]["y"] - S0.eases[1].start.y) <= S0.eases[1].to.n


\* The last call of update did not end in the countdown of the wait, nor
\* at once for want of bindings.
RanBindings == hist.last.evalAt # <<>>

\* What C18 says of the last call, but for the removal: nothing of a target
\* flagged destroyed when the call began was written, its notifications are
\* the ordinary ones, and if it ran the bindings, every field driven by a
\* binding left in the session was written.
DestroyedQuiet ==
    /\ \A e \in hist.last.dead : \A f \in Fields : <<e, f>> \notin hist.last.wrote
    /\ \A i \in 1..Len(hist.last.ev) :
          hist.last.ev[i] \in {"wait", "wait-end", "each", "reverse", "repeat",
                               "complete"}
    /\ RanBindings =>
          \A i \in 1..Len(S.eases) :
              /\ S.eases[i].element \notin hist.last.dead
              /\ \A f \in Driven(S.eases[i]) :
                    <<S.eases[i].element, f>> \in hist.last.wrote

\* C18 as stated: a binding whose target was flagged destroyed when a call
\* of update began is no longer in the session after the call, no field of
\* that target was written, the notifications are the ordinary ones and the
\* bindings on the other targets were updated.
C18_Original ==
    hist.calls > 0 =>
        /\ \A i \in 1..Len(S.eases) : S.eases[i].element \notin hist.last.dead
        /\ DestroyedQuiet

\* C18, amended: the same, the binding being removed in the first call that
\* does not end in the countdown of the wait.
C18_DestroyedDropped ==
    hist.calls > 0 =>
        /\ hist.last.ev # <<"wait">> =>
              \A i \in 1..Len(S.eases) : S.eases[i].element \notin hist.last.dead
        /\ DestroyedQuiet

\* A session on two targets, one of them destroyed before the last call:
\* its bindings are gone, the other target was written.
C18_Witness ==
    /\ S0.elements = <<1, 2>> /\ S0.eases[1].entry = "alpha"
    /\ hist.last.dead = {1}
    /\ Len(S.eases) = 1 /\ S.eases[1].element = 2
    /\ <<2, "alpha">> \in hist.last.wrote
    /\ hist.last.changed = {<<2, "alpha">>}

\* How many times notification n is in the sequence ev of one call.
Times(ev, n) == Len(SelectSeq(ev, LAMBDA e : e = n))

\* C19: a call of update on a session that has a binding, and that does not
\* end in the countdown of the wait, emits 'each' exactly once, after every
\* binding left in the session was updated and before any 'reverse',
\* 'repeat' or 'complete' of the call; it emits at most one of these three;
\* 'complete' is emitted exactly when the call returns true on a session
\* that had bindings, and a call on a session without bindings emits none.
C19_NotificationOrder ==
    /\ (hist.calls > 0 /\ hist.last.had > 0 /\ hist.last.ev # <<"wait">>) =>
          /\ Times(hist.last.ev, "each") = 1
          /\ \A i \in 1..Len(S.eases) : \A f \in Driven(S.eases[i]) :
                <<S.eases[i].element, f>> \in hist.last.before
          /\ \A i, j \in 1..Len(hist.last.ev) :
                (/\ hist.last.ev[i] = "each"
                 /\ hist.last.ev[j] \in {"reverse", "repeat", "complete"})
                    => i < j
          /\ Times(hist.last.ev, "reverse") + Times(hist.last.ev, "repeat")
                + Times(hist.last.ev, "complete") <= 1
          /\ (Times(hist.last.ev, "complete") = 1) <=> hist.last.fin
    /\ (hist.calls > 0 /\ hist.last.had = 0) =>
          Times(hist.last.ev, "complete") = 0

\* The wait of a reversing session on two targets runs out within a call
\* that also crosses the boundary with time left over: 'wait-end', 'each'
\* and 'reverse' are emitted in this order.
C19_Witness ==
    /\ hist.last.had >= 2
    /\ hist.last.ev = <<"wait-end", "each", "reverse">>
    /\ hist.last.leftover > 0
    /\ hist.last.before # {}
    /\ ~hist.last.fin

\* The sessions a step takes out of the live set of the group.
Left == Range(group.easings) \ Range(group'.easings)

\* C20: a session leaves the live set of the group only in the step after
\* its own update returned true, in a remove that leaves it without
\* bindings, or in destroy: a tick never drops another session that still
\* has bindings and has not finished.
C20_OnlyOwnExit ==
    [][Left # {} =>
          \/ LoopReturn /\ tick.fin /\ Left = {tick.cur}
          \/ Destroy
          \/ /\ tick' = tick
             /\ \A id \in Left : Len(sessions'[id].eases) = 0]_vars

\* C21: a group built with a ticker and the other options at their defaults
\* (useRAF true) is driven by the ticker alone: no animation frame of the
\* host is outstanding for it, so no frame callback runs update between
\* two ticks of the ticker.
C21_TickerOnlyDriver ==
    (group.options.ticker /\ group.options.useRAF) => group.raf = {}

====
